---- MODULE Spec2Model ----
(***************************************************************************)
(* castRayDDA and drawDottedLine of raycast_demo (src/main.c).             *)
(*                                                                         *)
(* Arithmetic.  The C code computes in IEEE floats.  The model computes    *)
(* the same expressions exactly, on inputs for which every intermediate    *)
(* value is a rational with a small denominator:                           *)
(*   - positions, tile_size and max_distance are integers (world units);   *)
(*   - a direction is a unit vector (x/h, y/h) with x*x + y*y = h*h, so    *)
(*     the square roots of lines 34-35 are rational;                       *)
(*   - a distance along the ray is a Float record counted in 1/SCALE world *)
(*     units, with the IEEE infinities and NaN kept as separate kinds.     *)
(* Rounding of float32 is not modelled.                                    *)
(***************************************************************************)
EXTENDS Integers, Sequences, FiniteSets, TLC

\* ------------------------------------------------------------------ bounds
GridRows == 3
GridCols == 3
MaxWalls == 2
IndexCap == 40

\* distances are counted in 1/SCALE world units (3 and 4 divide SCALE)
SCALE == 3 * 4

\* ------------------------------------------------- extended float values
Fin(v) == [k |-> "fin", v |-> v]
PInf == [k |-> "pinf", v |-> 0]
NInf == [k |-> "ninf", v |-> 0]
NaN == [k |-> "nan", v |-> 0]

\* a < b on floats: false when either side is NaN
FLt(a, b) ==
    IF a.k = "nan" \/ b.k = "nan" THEN FALSE
    ELSE IF a.k = "fin" /\ b.k = "fin" THEN a.v < b.v
    ELSE IF a.k = "ninf" THEN b.k # "ninf"
    ELSE IF a.k = "fin" THEN b.k = "pinf"
    ELSE FALSE

\* a == b on floats: false when either side is NaN
FEq(a, b) == a.k # "nan" /\ b.k # "nan" /\ a = b

\* a + b on floats
FAdd(a, b) ==
    IF a.k = "nan" \/ b.k = "nan" THEN NaN
    ELSE IF a.k = "fin" /\ b.k = "fin" THEN Fin(a.v + b.v)
    ELSE IF a.k = "fin" THEN b
    ELSE IF b.k = "fin" THEN a
    ELSE IF a.k = b.k THEN a
    ELSE NaN

\* n * f for an integer-valued float n (world units) and a float f
FScale(n, f) ==
    IF f.k = "nan" THEN NaN
    ELSE IF f.k = "fin" THEN Fin(n * f.v)
    ELSE IF n = 0 THEN NaN
    ELSE IF (n > 0) = (f.k = "pinf") THEN PInf
    ELSE NInf

\* the exact square root of a perfect square
Sqrt(n) == CHOOSE r \in 0..n : r * r = n

\* (int)(v / tile): the float-to-int conversion truncates toward zero
ToInt(v, tile) == IF v >= 0 THEN v \div tile ELSE -((-v) \div tile)

\* sqrtf(1 + (b/a)*(b/a)), in 1/SCALE units; b/0 is an infinity for b # 0
\* and NaN for b = 0
StepDirAxis(a, b) ==
    IF a = 0
    THEN IF b = 0 THEN NaN ELSE PInf
    ELSE Fin(Sqrt((SCALE * SCALE * (a * a + b * b)) \div (a * a)))

step_dir_of(direction) ==
    [x |-> StepDirAxis(direction.x, direction.y),
     y |-> StepDirAxis(direction.y, direction.x)]

\* (d < 0.0f) ? -1 : 1
StepSign(d) == IF d < 0 THEN -1 ELSE 1

\* InitRayLen measuring to the near grid line of the cell on both branches
InitRayLenNearLine(start, cur, step, sd, tile) == FScale(start - cur * tile, sd)

\* distance along the ray from start to the first grid line of one axis
InitRayLen(start, cur, step, sd, tile) ==
    IF step = -1
    THEN FScale(start - cur * tile, sd)
    ELSE FScale((cur + 1) * tile - start, sd)

\* InBounds with an off-by-one upper bound on the column
InBoundsOffByOne(x, y, rows, cols) == x >= 0 /\ x <= cols /\ y >= 0 /\ y < rows

\* the array bounds check of the loop
InBounds(x, y, rows, cols) == x >= 0 /\ x < cols /\ y >= 0 /\ y < rows

\* Continue without the has_hit_wall test
ContinueIgnoringHit(hit, dist, max) == FLt(dist, Fin(max * SCALE))

\* the loop condition
Continue(hit, dist, max) == ~hit /\ FLt(dist, Fin(max * SCALE))

\* which axis the loop body advances: x when ray_len.x < ray_len.y, else y.
\* tieX is FALSE in the program; TRUE is the other tie-break order.
AdvanceX(rl, tieX) == FLt(rl.x, rl.y) \/ (tieX /\ FEq(rl.x, rl.y))

\* map[r][c].  The program only loads inside the array (the load is guarded
\* by InBounds); a load outside it is given the value 0 here.
Load(map, r, c) ==
    IF r \in DOMAIN map /\ c \in DOMAIN map[r] THEN map[r][c] ELSE 0

\* Advance without the accumulation
AdvanceNone(len, sd, tile) == len

\* ray_len += step_dir * tile_size on one axis
Advance(len, sd, tile) == FAdd(len, FScale(tile, sd))

\* InitialHit testing the starting cell
InitialHitTestsStart(map, cx, cy) == Load(map, cy, cx) = 1

\* bool has_hit_wall = false: the starting cell is not tested
InitialHit(map, cx, cy) == FALSE

\* ReturnValue without the has_hit_wall test
ReturnValueAlwaysDistance(hit, dist, max) == dist

\* the value returned
ReturnValue(hit, dist, max) == IF hit THEN dist ELSE Fin(max * SCALE)

\* LoadIndex with the column of before the step
LoadIndexStaleColumn(s, nx, ny) == <<ny, s.cur_map_x>>

\* the indices of map[cur_map_y][cur_map_x], loaded after the step to (nx, ny)
LoadIndex(s, nx, ny) == <<ny, nx>>

\* the entry computations of castRayDDA: the loop state before the loop
Entry(in) ==
    LET sd == step_dir_of(in.direction)
        cx == ToInt(in.start_pos.x, in.tile_size)
        cy == ToInt(in.start_pos.y, in.tile_size)
        sx == StepSign(in.direction.x)
        sy == StepSign(in.direction.y)
    IN [step_dir |-> sd, step_x |-> sx, step_y |-> sy,
        cur_map_x |-> cx, cur_map_y |-> cy,
        ray_len |-> [x |-> InitRayLen(in.start_pos.x, cx, sx, sd.x, in.tile_size),
                     y |-> InitRayLen(in.start_pos.y, cy, sy, sd.y, in.tile_size)],
        has_hit_wall |-> InitialHit(in.map, cx, cy),
        distance |-> Fin(0),
        reads |-> {},
        skipped |-> 0,
        iters |-> 0,
        ties |-> 0,
        tie_side_wall |-> FALSE]

\* one iteration of the while loop.  reads (the cells loaded so far),
\* skipped (steps that landed outside the array), iters, ties (iterations
\* that began with ray_len.x = ray_len.y) and tie_side_wall (at such an
\* iteration one of the two cells beside the crossed corner is a wall) record
\* the history of the traversal.
LoopBody(s, in, tieX) ==
    LET ax == AdvanceX(s.ray_len, tieX)
        sideWall(x, y) ==
            InBounds(x, y, in.map_rows, in.map_cols) /\ Load(in.map, y, x) = 1
        nx == IF ax THEN s.cur_map_x + s.step_x ELSE s.cur_map_x
        ny == IF ax THEN s.cur_map_y ELSE s.cur_map_y + s.step_y
        inb == InBounds(nx, ny, in.map_rows, in.map_cols)
        ld == LoadIndex(s, nx, ny)
        tie == FEq(s.ray_len.x, s.ray_len.y)
    IN [s EXCEPT
        !.cur_map_x = nx,
        !.cur_map_y = ny,
        !.distance = IF ax THEN s.ray_len.x ELSE s.ray_len.y,
        !.ray_len = IF ax
                    THEN [s.ray_len EXCEPT !.x = Advance(@, s.step_dir.x, in.tile_size)]
                    ELSE [s.ray_len EXCEPT !.y = Advance(@, s.step_dir.y, in.tile_size)],
        !.reads = IF inb THEN @ \cup {ld} ELSE @,
        !.skipped = IF inb THEN @ ELSE @ + 1,
        !.iters = @ + 1,
        !.ties = IF tie THEN @ + 1 ELSE @,
        !.tie_side_wall =
            \/ @
            \/ /\ tie
               /\ \/ sideWall(s.cur_map_x + s.step_x, s.cur_map_y)
                  \/ sideWall(s.cur_map_x, s.cur_map_y + s.step_y),
        !.has_hit_wall = IF inb /\ Load(in.map, ld[1], ld[2]) = 1 THEN TRUE ELSE @]

\* more iterations than any traversal of the model takes
Fuel == 4 * IndexCap

\* the whole loop, run to its exit (at most fuel iterations)
RECURSIVE RunLoop(_, _, _, _)
RunLoop(s, in, tieX, fuel) ==
    IF fuel = 0 \/ ~Continue(s.has_hit_wall, s.distance, in.max_distance)
    THEN s
    ELSE RunLoop(LoopBody(s, in, tieX), in, tieX, fuel - 1)

\* ------------------------------------------------------------------ inputs
\* origins inside the grid, on grid lines and corners, and outside the grid on
\* every side (negative coordinates too: W and A move the origin freely)
Origins ==
    {[x |-> p[1], y |-> p[2]] : p \in
        {<<17, 16>>, <<16, 17>>, <<20, 20>>, <<30, 30>>, <<45, 45>>, <<0, 0>>,
         <<-27, 16>>, <<-5, 17>>, <<16, -5>>, <<-27, -27>>, <<70, 30>>,
         <<45, -27>>, <<17, 65>>}}
Directions ==
    {[x |-> 1, y |-> 0, h |-> 1], [x |-> 0, y |-> 1, h |-> 1],
     [x |-> -1, y |-> 0, h |-> 1], [x |-> 0, y |-> -1, h |-> 1],
     [x |-> 3, y |-> 4, h |-> 5], [x |-> 4, y |-> 3, h |-> 5],
     [x |-> -3, y |-> 4, h |-> 5], [x |-> -4, y |-> -3, h |-> 5]}
Budgets == {0, 10, 70}
TileSizes == {20}

Cells(rows, cols) == (0..(rows - 1)) \X (0..(cols - 1))

\* the int** map of main: rows of ints, 1 for a wall and 0 otherwise
MapWith(rows, cols, walls) ==
    [r \in 0..(rows - 1) |-> [c \in 0..(cols - 1) |->
        IF <<r, c>> \in walls THEN 1 ELSE 0]]

WallSets == {w \in SUBSET Cells(GridRows, GridCols) : Cardinality(w) <= MaxWalls}

\* the scenario of the demo: 80 x 80 grid of 20-unit tiles, origin at the
\* centre of the 800 x 800 window, ray budget 1000
DemoInput ==
    [start_pos |-> [x |-> 400, y |-> 400],
     direction |-> [x |-> 1, y |-> 0, h |-> 1],
     map |-> MapWith(80, 80, {<<20, 25>>}),
     map_rows |-> 80, map_cols |-> 80,
     tile_size |-> 20, max_distance |-> 1000]

Inputs ==
    {[start_pos |-> o,
      direction |-> d,
      map |-> MapWith(GridRows, GridCols, w),
      map_rows |-> GridRows, map_cols |-> GridCols,
      tile_size |-> t, max_distance |-> m] :
        o \in Origins, d \in Directions,
        w \in WallSets, t \in TileSizes, m \in Budgets}
    \cup {DemoInput}

\* ------------------------------------------------------------------- state
VARIABLES in, st, pc, result

vars == <<in, st, pc, result>>

Init ==
    /\ in \in Inputs
    /\ st = Entry(in)
    /\ pc = "loop"
    /\ result = NaN

Step ==
    /\ pc = "loop"
    /\ Continue(st.has_hit_wall, st.distance, in.max_distance)
    /\ st.cur_map_x \in (-IndexCap)..IndexCap
    /\ st.cur_map_y \in (-IndexCap)..IndexCap
    /\ st' = LoopBody(st, in, FALSE)
    /\ UNCHANGED <<in, pc, result>>

Return ==
    /\ pc = "loop"
    /\ ~Continue(st.has_hit_wall, st.distance, in.max_distance)
    /\ pc' = "done"
    /\ result' = ReturnValue(st.has_hit_wall, st.distance, in.max_distance)
    /\ UNCHANGED <<in, st>>

Next == Step \/ Return

Spec == Init /\ [][Next]_vars

\* the loop runs to completion: castRayDDA is a synchronous call
SpecFair == Spec /\ WF_vars(Next)

\* ------------------------------------------------------------ drawDottedLine
\* Points of drawDottedLine are counted in 1/DS world units, so that a dash
\* along a 3-4-5 direction has integer coordinates.
DS == Sqrt(3 * 3 + 4 * 4)

\* const float len = 4.0f
len == 4

\* raymath: the vector v1 - v2
Vector2Subtract(v1, v2) == [x |-> v1.x - v2.x, y |-> v1.y - v2.y]

\* raymath: the vector v1 + v2
Vector2Add(v1, v2) == [x |-> v1.x + v2.x, y |-> v1.y + v2.y]

\* raymath: the length of v1 - v2
Vector2Distance(v1, v2) ==
    Sqrt((v1.x - v2.x) * (v1.x - v2.x) + (v1.y - v2.y) * (v1.y - v2.y))

\* raymath: v scaled to unit length, the zero vector left as it is.  The unit
\* vector is kept as the ratio (x/h, y/h).
Vector2Normalize(v) ==
    LET length == Sqrt(v.x * v.x + v.y * v.y)
    IN IF length > 0 THEN [x |-> v.x, y |-> v.y, h |-> length]
       ELSE [x |-> v.x, y |-> v.y, h |-> 1]

\* raymath: the unit vector dir times scale world units, in 1/DS units
Vector2Scale(dir, scale) ==
    [x |-> (dir.x * scale * DS) \div dir.h, y |-> (dir.y * scale * DS) \div dir.h]

\* lines 333-336: the locals before the loop
DottedEntry(din) ==
    [start_pos |-> din.start_pos,
     end_pos |-> din.end_pos,
     dir |-> Vector2Normalize(Vector2Subtract(din.end_pos, din.start_pos)),
     full_distance |-> Vector2Distance(din.start_pos, din.end_pos),
     steps |-> Vector2Distance(din.start_pos, din.end_pos) \div (len * 2 * DS),
     i |-> 0,
     walked |-> <<>>,
     drawn |-> <<>>]

\* whether iteration i hands its sub-segment to DrawLineV
Emits(i) == i % 2 = 0

\* one iteration of the for loop.  walked lists the sub-segment of every
\* iteration, drawn the ones handed to DrawLineV.
DottedBody(s) ==
    LET sp == Vector2Add(s.start_pos, Vector2Scale(s.dir, len))
        ep == Vector2Add(sp, Vector2Scale(s.dir, len))
    IN [s EXCEPT
        !.start_pos = sp,
        !.end_pos = ep,
        !.walked = Append(@, <<sp, ep>>),
        !.drawn = IF Emits(s.i) THEN Append(@, <<sp, ep>>) ELSE @,
        !.i = @ + 1]

DottedStarts == {[x |-> 0, y |-> 0], [x |-> 7 * DS, y |-> -3 * DS]}
MaxDottedLen == 8
DottedOffsets ==
    {[x |-> 0, y |-> 0]}
    \cup {[x |-> k * len * DS, y |-> 0] : k \in 1..MaxDottedLen}
    \cup {[x |-> 0, y |-> -(k * len * DS + DS)] : k \in 1..MaxDottedLen}
    \cup {[x |-> 3 * k * DS, y |-> 4 * k * DS] : k \in 1..MaxDottedLen}
    \cup {[x |-> -4 * k * DS, y |-> 3 * k * DS] : k \in 1..MaxDottedLen}

DottedInputs ==
    {[start_pos |-> p, end_pos |-> Vector2Add(p, o)] :
        p \in DottedStarts, o \in DottedOffsets}

DottedInit ==
    /\ in \in DottedInputs
    /\ st = DottedEntry(in)
    /\ pc = "dotted"
    /\ result = NaN

DottedIterate ==
    /\ pc = "dotted"
    /\ st.i < st.steps
    /\ st' = DottedBody(st)
    /\ UNCHANGED <<in, pc, result>>

DottedReturn ==
    /\ pc = "dotted"
    /\ ~(st.i < st.steps)
    /\ pc' = "dotted_done"
    /\ UNCHANGED <<in, st, result>>

DottedNext == DottedIterate \/ DottedReturn

SpecDotted == DottedInit /\ [][DottedNext]_vars

\* ------------------------------------------------------------------ claims
Done == pc = "done"
InCast == pc \in {"loop", "done"}
Budget == Fin(in.max_distance * SCALE)
OpenGrid == \A rc \in Cells(in.map_rows, in.map_cols) : in.map[rc[1]][rc[2]] = 0
OriginInside ==
    /\ in.start_pos.x >= 0 /\ in.start_pos.x < in.map_cols * in.tile_size
    /\ in.start_pos.y >= 0 /\ in.start_pos.y < in.map_rows * in.tile_size
OriginRow == in.start_pos.y \div in.tile_size
OriginCol == in.start_pos.x \div in.tile_size

\* the value castRayDDA returns on input i with tie-break order tieX
Cast(i, tieX) ==
    LET r == RunLoop(Entry(i), i, tieX, Fuel)
    IN ReturnValue(r.has_hit_wall, r.distance, i.max_distance)

\* C1: the value returned by castRayDDA lies in [0, max_distance].
C1_ResultWithinBudget ==
    Done => /\ result.k = "fin"
            /\ 0 <= result.v
            /\ result.v <= in.max_distance * SCALE

\* C2: an axis-aligned ray (direction (1,0) or (0,1)) from an origin inside the
\* grid, with exactly one occupied cell ahead of the origin cell in its row
\* (resp. column) and that cell's near edge within max_distance, returns the
\* distance from the origin to that near edge.
WallsAheadInRow == {c \in (OriginCol + 1)..(in.map_cols - 1) : in.map[OriginRow][c] = 1}
WallsAheadInCol == {r \in (OriginRow + 1)..(in.map_rows - 1) : in.map[r][OriginCol] = 1}
NearEdgeX == (CHOOSE c \in WallsAheadInRow : TRUE) * in.tile_size - in.start_pos.x
NearEdgeY == (CHOOSE r \in WallsAheadInCol : TRUE) * in.tile_size - in.start_pos.y
C2_AxisAlignedNearEdge ==
    (Done /\ OriginInside) =>
        /\ ( /\ in.direction = [x |-> 1, y |-> 0, h |-> 1]
             /\ Cardinality(WallsAheadInRow) = 1
             /\ NearEdgeX <= in.max_distance )
           => result = Fin(NearEdgeX * SCALE)
        /\ ( /\ in.direction = [x |-> 0, y |-> 1, h |-> 1]
             /\ Cardinality(WallsAheadInCol) = 1
             /\ NearEdgeY <= in.max_distance )
           => result = Fin(NearEdgeY * SCALE)

\* the demo scenario: tile 20, origin (400,400), direction (1,0), wall at row
\* 20, column 25, returns 100
W_C2_DemoScenario == Done /\ in = DemoInput /\ result = Fin(100 * SCALE)

\* C3: on a grid with no occupied cell castRayDDA returns exactly
\* max_distance, for every origin, direction and budget.
C3_OpenGridReturnsBudget == (Done /\ OpenGrid) => result = Budget

W_C3_OpenGridFromOutside ==
    /\ Done /\ OpenGrid
    /\ in.start_pos.x < 0
    /\ st.iters > 2 /\ st.skipped > 0 /\ Cardinality(st.reads) > 0
    /\ result = Budget /\ in.max_distance > 0

C5_LargerBudgetSameHit ==
    Done =>
        \A m1 \in Budgets :
            LET in1 == [in EXCEPT !.max_distance = m1]
                r1 == RunLoop(Entry(in1), in1, FALSE, Fuel)
            IN (m1 < in.max_distance /\ r1.has_hit_wall) =>
                (st.has_hit_wall /\ result = r1.distance)

W_C5_HitBeyondSmallerBudget ==
    /\ Done /\ st.has_hit_wall /\ in.max_distance = 70
    /\ LET in1 == [in EXCEPT !.max_distance = 10]
       IN RunLoop(Entry(in1), in1, FALSE, Fuel).has_hit_wall
    /\ result.v > 10 * SCALE

\* C7 (as stated): whichever axis is advanced first when ray_len.x equals
\* ray_len.y, castRayDDA returns the same value.
C7_TieOrderUnobservable == Done => result = Cast(in, TRUE)

\* C7 (amended): the two orders return the same value when, at every
\* iteration that begins with ray_len.x equal to ray_len.y, neither of the two
\* cells beside the crossed corner is an occupied cell of the grid.
C7_TieOrderUnobservableWithoutSideWall ==
    (Done /\ ~st.tie_side_wall) => result = Cast(in, TRUE)

W_C7_CornerCrossedThenHit ==
    Done /\ st.ties > 0 /\ ~st.tie_side_wall /\ st.has_hit_wall

\* C8: the starting cell indices are floor(origin / cellSize) and the initial
\* boundary distances lie between 0 and one cell's crossing length.
C8_FloorIndicesAndFirstBoundary ==
    (pc = "loop" /\ st.iters = 0) =>
        /\ st.cur_map_x = in.start_pos.x \div in.tile_size
        /\ st.cur_map_y = in.start_pos.y \div in.tile_size
        /\ ~FLt(st.ray_len.x, Fin(0))
        /\ ~FLt(st.ray_len.y, Fin(0))
        /\ ~FLt(FScale(in.tile_size, st.step_dir.x), st.ray_len.x)
        /\ ~FLt(FScale(in.tile_size, st.step_dir.y), st.ray_len.y)

\* C9: every load from the grid uses indices inside the array, and every
\* iteration either loads the cell it entered or, landing outside, loads
\* nothing and lets the traversal go on.
C9_ReadsInBounds ==
    InCast =>
        /\ st.reads \subseteq Cells(in.map_rows, in.map_cols)
        /\ Cardinality(st.reads) + st.skipped = st.iters
        /\ (st.iters > 0 /\ ~InBounds(st.cur_map_x, st.cur_map_y, in.map_rows, in.map_cols))
            => <<st.cur_map_y, st.cur_map_x>> \notin st.reads

W_C9_HitAfterReEntry == Done /\ st.has_hit_wall /\ st.skipped > 0

\* C10: the starting cell is never loaded, and the value returned does not
\* depend on whether the starting cell is occupied.
StartCell ==
    <<ToInt(in.start_pos.y, in.tile_size), ToInt(in.start_pos.x, in.tile_size)>>
StartInGrid == StartCell \in Cells(in.map_rows, in.map_cols)
StartCleared ==
    IF StartInGrid
    THEN [in EXCEPT !.map[StartCell[1]][StartCell[2]] = 0]
    ELSE in
C10_StartCellNeverTested ==
    InCast =>
        /\ StartCell \notin st.reads
        /\ Done => result = Cast(StartCleared, FALSE)

W_C10_OriginInsideWall ==
    /\ Done /\ StartInGrid
    /\ in.map[StartCell[1]][StartCell[2]] = 1
    /\ st.iters > 0
    /\ result # Fin(0)

\* C6: drawDottedLine walks floor(distance / (2 * len)) sub-segments, each of
\* length len, consecutive ones starting 2 * len apart, and hands the
\* even-indexed ones to DrawLineV.
EvenIndexed(seq) == [k \in 1..((Len(seq) + 1) \div 2) |-> seq[2 * k - 1]]
C6_DashesSpacedTwoLengths ==
    pc = "dotted_done" =>
        LET n == Len(st.walked)
        IN /\ n = Vector2Distance(in.start_pos, in.end_pos) \div (2 * len * DS)
           /\ \A k \in 1..n :
                Vector2Distance(st.walked[k][1], st.walked[k][2]) = len * DS
           /\ \A k \in 1..(n - 1) :
                Vector2Distance(st.walked[k][1], st.walked[k + 1][1]) = 2 * len * DS
           /\ st.drawn = EvenIndexed(st.walked)

====
